---- MODULE Spec2Model ----
(***************************************************************************)
(* ChatAgent (src/src/agent.ts): a Durable Object that keeps a chat log in *)
(* a SQL table `messages` and mirrors it in the in-memory array            *)
(* this.messages.  Every request runs fetch(): initializeDatabase (CREATE  *)
(* TABLE IF NOT EXISTS, then SELECT ... ORDER BY timestamp ASC into the    *)
(* cache), then the route handler.                                         *)
(*                                                                         *)
(* A request is a process.  Two requests can be in flight.  JavaScript     *)
(* runs one request at a time and the host delivers no other event to the  *)
(* object while a storage operation is pending, so another request runs    *)
(* only while this one waits for its body (request.json()) or for the      *)
(* model (AI.run): an action is the code from one such wait to the next.   *)
(***************************************************************************)
EXTENDS Integers, Sequences, FiniteSets, TLC

\* ------------------------------------------------------------------ bounds

\* Rows the table may grow to; a longer table may still take one chat.
MaxLog == 4
\* Rows already in the table when the instance is constructed: 0 .. MaxPrior.
MaxPrior == 11

\* ------------------------------------------------------- program constants

\* this.messages.slice(-10)
WINDOW == 10

\* handleChat saves two messages: the user's and the assistant's.
RowsPerChat == 2

SystemPrompt ==
    "You are a helpful AI assistant embedded in a blog. Help users with questions about the blog content, technology, or general topics. Be friendly and concise."
NoResponseFallback == "I apologize, but I couldn't generate a response."
ErrorFallback == "I'm having trouble connecting to the AI service. Please try again."

\* The value of a destructured field that the JSON body does not have.
Undefined == "<undefined>"

\* ------------------------------------------------------------------ inputs

Procs == {"r1", "r2"}

Methods == {"OPTIONS", "GET", "POST"}
Paths == {"/chat", "/history", "/clear", "/unknown"}

Utterances == {"hi"}

\* A request body: not JSON at all, a JSON object without `message`, or
\* {message: u}.
BadJson == [json |-> FALSE, message |-> Undefined]
NoField == [json |-> TRUE, message |-> Undefined]
Bodies == {BadJson, NoField} \cup {[json |-> TRUE, message |-> u] : u \in Utterances}
NoBody == [json |-> FALSE, message |-> "<none>"]

\* What env.AI.run resolves to: a bare string, an object with a `response`
\* field, an object without one; or it throws.
AIResults ==
    {[shape |-> "string", response |-> "ok"]}
    \cup {[shape |-> "object", response |-> t] : t \in {"ok", Undefined}}
AIThrows == [shape |-> "throws", response |-> Undefined]

\* Every shape of result: the string or the response field may be empty.
Replies == {"", "ok"}
AllAIResults ==
    {[shape |-> "string", response |-> t] : t \in Replies}
    \cup {[shape |-> "object", response |-> t] : t \in Replies \cup {Undefined}}

\* Date.now(): the wall clock at the last prior row's time, or one
\* millisecond later; successive reads may repeat a value or go back.
Epoch == MaxPrior
Times == {Epoch, Epoch + 1}

\* ---------------------------------------------------------------- messages

Msg(role, content, ts) == [role |-> role, content |-> content, timestamp |-> ts]
NoMsg == Msg("none", "", 0)

\* A log left by earlier activations: n rows, user and assistant alternating,
\* written at times 1 .. n.
PriorLog(n) ==
    [i \in 1..n |-> IF i % 2 = 1 THEN Msg("user", "hi", i)
                                 ELSE Msg("assistant", "ok", i)]

Min(a, b) == IF a < b THEN a ELSE b
Max(a, b) == IF a > b THEN a ELSE b

Last(s) == s[Len(s)]

\* Array.prototype.slice(-n): the last n elements, or all of them.
SliceLast(s, n) == SubSeq(s, Len(s) - Min(n, Len(s)) + 1, Len(s))

\* SELECT ... ORDER BY timestamp ASC over rows stored in id order: every
\* ordering of the rows that is ascending in timestamp.  SQL leaves the order
\* of rows with equal keys open, so each such ordering is a possible result.
RECURSIVE OrderedFrom(_, _)
OrderedFrom(rows, idx) ==
    IF idx = {} THEN {<<>>}
    ELSE LET first == {i \in idx : \A j \in idx : rows[i].timestamp <= rows[j].timestamp}
         IN  UNION {{<<rows[i]>> \o rest : rest \in OrderedFrom(rows, idx \ {i})} : i \in first}

OrderByTimestamp(rows) == OrderedFrom(rows, DOMAIN rows)

\* Variant: the columns without NOT NULL.
InsertAcceptsAnything(m) == TRUE

\* messages TEXT NOT NULL columns: a row whose content is not a value fails
\* the INSERT.
InsertAccepts(m) == m.content # Undefined

\* The context generateAIResponse passes to AI.run.
RoleContent(m) == [role |-> m.role, content |-> m.content]

\* Variant: the whole cache instead of its last WINDOW entries.
BuildContextUnbounded(cache, userMessage) ==
    <<[role |-> "system", content |-> SystemPrompt]>>
    \o [i \in 1..Len(cache) |-> RoleContent(cache[i])]
    \o <<[role |-> "user", content |-> userMessage]>>

BuildContext(cache, userMessage) ==
    LET recentMessages == SliceLast(cache, WINDOW)
    IN  <<[role |-> "system", content |-> SystemPrompt]>>
        \o [i \in 1..Len(recentMessages) |-> RoleContent(recentMessages[i])]
        \o <<[role |-> "user", content |-> userMessage]>>

\* Variant: ?? in place of ||, only a missing field gives the fallback.
TruthyDefined(x) == x # Undefined

\* typeof response === "string" ? response : response.response || fallback
Truthy(x) == x # Undefined /\ x # ""

Normalize(result) ==
    IF result.shape = "string" THEN result.response
    ELSE IF Truthy(result.response) THEN result.response
    ELSE NoResponseFallback

\* Variant: the catch returns the same string as the missing response field.
AIResponseOneFallback(result) ==
    IF result.shape = "throws" THEN NoResponseFallback ELSE Normalize(result)

\* generateAIResponse's value: the normalized result, or the catch's string.
AIResponse(result) ==
    IF result.shape = "throws" THEN ErrorFallback ELSE Normalize(result)

\* --------------------------------------------------------------- responses

NoResp ==
    [outcome |-> "none", status |-> 0, success |-> "n/a", body |-> "none",
     messages |-> <<>>, count |-> -1, userMessage |-> NoMsg,
     assistantMessage |-> NoMsg, cors |-> FALSE]

\* fetch's promise rejects: no Response object is produced.
Rejected == [NoResp EXCEPT !.outcome = "rejected"]

Preflight ==
    [NoResp EXCEPT !.outcome = "response", !.status = 200, !.body = "empty", !.cors = TRUE]

NotFound ==
    [NoResp EXCEPT !.outcome = "response", !.status = 404, !.body = "Not found", !.cors = TRUE]

ChatOk(userMessage, assistantMessage, n) ==
    [NoResp EXCEPT !.outcome = "response", !.status = 200, !.success = "true",
                   !.body = "json", !.userMessage = userMessage,
                   !.assistantMessage = assistantMessage, !.count = n, !.cors = TRUE]

ChatError ==
    [NoResp EXCEPT !.outcome = "response", !.status = 500, !.success = "false",
                   !.body = "json", !.cors = TRUE]

History(cache) ==
    [NoResp EXCEPT !.outcome = "response", !.status = 200, !.success = "true",
                   !.body = "json", !.messages = cache, !.count = Len(cache), !.cors = TRUE]

ClearOk ==
    [NoResp EXCEPT !.outcome = "response", !.status = 200, !.success = "true",
                   !.body = "json", !.cors = TRUE]

\* ------------------------------------------------------------------- state

VARIABLES
    db,        \* the rows of table `messages`, in id order
    messages,  \* this.messages
    req,       \* per request slot: position, request, locals, response
    cap,       \* the number of rows the table may grow to before it is cleared
    slots,     \* the request slots in use: one, or two for overlapping requests
    serial,    \* history: the log started empty and only successful,
               \* non-overlapping chats have run
    last,      \* history: the rows removed by the clear that has just
               \* completed, -1 when the last step was not such a clear
    shown      \* history: the messages of the GET /history answered last,
               \* while no request has been dispatched since; NotShown
               \* otherwise

vars == <<db, messages, req, cap, slots, serial, last, shown>>

NotShown == <<NoMsg>>

Idle ==
    [pc |-> "idle", method |-> "", path |-> "", body |-> NoBody,
     userMessage |-> NoMsg, assistantMessage |-> NoMsg,
     context |-> <<>>,
     result |-> "none", sql |-> FALSE, sqlFailed |-> FALSE, inserted |-> <<>>,
     cleared |-> -1, resp |-> NoResp,
     handler |-> "none",  \* history: the route handler fetch has called
     raw |-> Undefined,   \* history: the response field or string AI.run gave
     before |-> -1,       \* history: the rows in the table when handleChat began
     overlap |-> "no"]    \* history: "no" while no other request has been in
                          \* flight with this one; "infer" when this one was
                          \* dispatched while a chat waited for AI.run;
                          \* "yes" otherwise

\* Positions at which the request is waiting for something outside the
\* object (its body, the model), so that another request may run.  A request
\* at "done" has just produced its response; the state is the one at the
\* moment of the response.
Waiting == {"idle", "parse", "infer"}

CanRun(p) == \A q \in Procs \ {p} : req[q].pc \in Waiting

\* A request takes the first free slot.
Free(p) ==
    /\ p \in slots
    /\ req[p].pc = "idle"
    /\ CanRun(p)
    /\ (p = "r1" \/ req["r1"].pc # "idle")

\* Rows the requests in flight may still add.
Pending(p) ==
    IF req[p].pc = "parse" THEN RowsPerChat
    ELSE IF req[p].pc = "infer" THEN RowsPerChat - 1
    ELSE 0

RECURSIVE PendingIn(_)
PendingIn(S) ==
    IF S = {} THEN 0
    ELSE LET p == CHOOSE q \in S : TRUE IN Pending(p) + PendingIn(S \ {p})

\* A new chat is taken only while its two rows still fit.
Room == Len(db) + PendingIn(Procs) + RowsPerChat <= cap

\* A newly constructed instance (messages = []) over the table that earlier
\* activations left.
Constructed(logs, inUse) ==
    /\ db \in logs
    /\ messages = <<>>
    /\ req = [p \in Procs |-> Idle]
    /\ cap = Max(MaxLog, Len(db) + RowsPerChat)
    /\ slots = inUse
    /\ serial = (db = <<>>)
    /\ last = -1
    /\ shown = NotShown

\* Requests one at a time, over a table of any length up to MaxPrior.
Init == Constructed({PriorLog(n) : n \in 0..MaxPrior}, {"r1"})

\* Requests that overlap, over an empty table.
InitOverlap == Constructed({<<>>}, Procs)

\* ----------------------------------------------------------------- actions

IsChat(method, path) == path = "/chat" /\ method = "POST"
IsHistory(method, path) == path = "/history" /\ method = "GET"
\* Variant: the /clear route taken for any method.
IsClearAnyMethod(method, path) == path = "/clear"

IsClear(method, path) == path = "/clear" /\ method = "POST"

\* Only POST /chat is given a body to read.
WellFormed(method, path, body) ==
    IF IsChat(method, path) THEN body \in Bodies ELSE body = NoBody

Arrived(method, path, body) ==
    [Idle EXCEPT !.method = method, !.path = path, !.body = body]

\* Variant: the handler builds its response and never returns it.
FinishNever(r, response) == [r EXCEPT !.resp = response]

Finish(r, response) == [r EXCEPT !.pc = "done", !.resp = response]

NoOverlap == \A q \in Procs : req[q].pc = "idle"

Others(p) == Procs \ {p}

\* What request p finds in the other slot when it is dispatched.
Met(p) ==
    IF \E q \in Others(p) : req[q].pc = "infer" THEN "infer"
    ELSE IF \E q \in Others(p) : req[q].pc # "idle" THEN "yes"
    ELSE "no"

\* Request p is dispatched and runs up to r.  A request in flight in the
\* other slot has from now on overlapped with another one.
Begin(p, r) ==
    [q \in Procs |->
        IF q = p THEN [r EXCEPT !.overlap = Met(p)]
        ELSE IF req[q].pc = "idle" THEN req[q]
        ELSE [req[q] EXCEPT !.overlap = IF @ = "no" THEN "yes" ELSE @]]

\* initializeDatabase when both statements succeed: the cache it leaves.
\* (CREATE TABLE IF NOT EXISTS changes no row.)
Hydrated(rows) == OrderByTimestamp(rows)

\* Variant: saveMessage putting the new row first.
InsertRowFirst(rows, m) == <<m>> \o rows

\* Variant: saveMessage without the push.
PushMessageSkipped(cache, m) == cache

\* saveMessage: this.messages.push(message), then the INSERT.
PushMessage(cache, m) == Append(cache, m)
InsertRow(rows, m) == Append(rows, m)

\* Variant: handleChat's try block around initializeDatabase as well.
InitFailureCaught(method, path) == IF IsChat(method, path) THEN ChatError ELSE Rejected

\* What a throw of initializeDatabase becomes: fetch awaits it outside any
\* try block, so fetch's promise rejects, whatever the route.
InitFailure(method, path) == Rejected

\* fetch: initializeDatabase throws (the CREATE TABLE fails, or the SELECT
\* does).  No route handler is called and the cache is left as it was.
InitFails(p, method, path, body) ==
    /\ Free(p)
    /\ WellFormed(method, path, body)
    /\ req' = Begin(p, Finish([Arrived(method, path, body) EXCEPT !.sql = TRUE, !.sqlFailed = TRUE],
                              InitFailure(method, path)))
    /\ serial' = (serial /\ NoOverlap /\ ~IsChat(method, path) /\ ~IsClear(method, path))
    /\ last' = -1
    /\ shown' = NotShown
    /\ UNCHANGED <<db, messages, cap, slots>>

\* fetch, OPTIONS: initializeDatabase, then new Response(null, corsHeaders).
Options(p, path) ==
    /\ Free(p)
    /\ \E cache \in Hydrated(db) :
         /\ messages' = cache
         /\ req' = Begin(p, Finish([Arrived("OPTIONS", path, NoBody) EXCEPT !.sql = TRUE], Preflight))
    /\ serial' = (serial /\ NoOverlap)
    /\ last' = -1
    /\ shown' = NotShown
    /\ UNCHANGED <<db, cap, slots>>

\* fetch, GET /history: initializeDatabase, then handleGetHistory answers
\* with the cache and its length.
HandleGetHistory(p, method, path) ==
    /\ Free(p)
    /\ IsHistory(method, path)
    /\ \E cache \in Hydrated(db) :
         /\ messages' = cache
         /\ req' = Begin(p, Finish([Arrived(method, path, NoBody) EXCEPT
                                      !.sql = TRUE, !.cleared = last,
                                      !.handler = "handleGetHistory"],
                                   History(cache)))
         /\ shown' = IF NoOverlap THEN cache ELSE NotShown
    /\ serial' = (serial /\ NoOverlap)
    /\ last' = -1
    /\ UNCHANGED <<db, cap, slots>>

\* Variant: handleClear without the DELETE.
ClearedRowsKept(rows) == rows

\* What handleClear leaves in the table and in the cache.
ClearedRows(rows) == <<>>
ClearedCache(cache) == <<>>

\* fetch, POST /clear: initializeDatabase, then handleClear: DELETE FROM
\* messages, this.messages = [].  A failing DELETE rejects fetch's promise
\* before the cache is reset.
HandleClear(p, method, path) ==
    /\ Free(p)
    /\ IsClear(method, path)
    /\ \E cache \in Hydrated(db) :
         LET r == [Arrived(method, path, NoBody) EXCEPT !.sql = TRUE, !.handler = "handleClear"]
         IN  \/ /\ db' = ClearedRows(db)
                /\ messages' = ClearedCache(cache)
                /\ req' = Begin(p, Finish(r, ClearOk))
                /\ last' = Len(db)
             \/ /\ db' = db
                /\ messages' = cache
                /\ req' = Begin(p, Finish([r EXCEPT !.sqlFailed = TRUE], Rejected))
                /\ last' = -1
    /\ cap' = IF db' = <<>> THEN MaxLog ELSE cap
    /\ serial' = FALSE
    /\ shown' = NotShown
    /\ UNCHANGED slots

\* fetch, any other method and path: initializeDatabase, then the 404.
RouteMiss(p, method, path) ==
    /\ Free(p)
    /\ method # "OPTIONS"
    /\ ~IsChat(method, path)
    /\ ~IsHistory(method, path)
    /\ ~IsClear(method, path)
    /\ \E cache \in Hydrated(db) :
         /\ messages' = cache
         /\ req' = Begin(p, Finish([Arrived(method, path, NoBody) EXCEPT !.sql = TRUE], NotFound))
    /\ serial' = (serial /\ NoOverlap)
    /\ last' = -1
    /\ shown' = NotShown
    /\ UNCHANGED <<db, cap, slots>>

\* fetch, POST /chat: initializeDatabase, then handleChat is entered and
\* waits for request.json().
ChatStart(p, method, path, body) ==
    /\ Free(p)
    /\ Room
    /\ IsChat(method, path)
    /\ WellFormed(method, path, body)
    /\ \E cache \in Hydrated(db) :
         /\ messages' = cache
         /\ req' = Begin(p, [Arrived(method, path, body) EXCEPT
                               !.pc = "parse", !.sql = TRUE,
                               !.handler = "handleChat", !.before = Len(db)])
    /\ serial' = (serial /\ NoOverlap)
    /\ last' = -1
    /\ shown' = NotShown
    /\ UNCHANGED <<db, cap, slots>>

\* Variant: saveMessage called without await, a failing INSERT goes unseen.
PropagatesNever(stored) == FALSE

\* Variant: AI.run called outside the try block.
EscapesWhenThrown(result) == result.shape = "throws"

\* await this.saveMessage(...): a failing INSERT rejects the awaited
\* promise, so the statement throws exactly when the row was not stored.
Propagates(stored) == ~stored

\* Whether a throw of AI.run escapes generateAIResponse: the call is inside
\* its try block, so it never does.
Escapes(result) == FALSE

\* handleChat from the parsed body to the call of AI.run: the user message
\* is built with Date.now() and saved (the push, then the INSERT), then
\* generateAIResponse builds the context from the cache.  A body that is not
\* JSON, or a failing INSERT, throws into handleChat's catch.
ChatParse(p) ==
    /\ req[p].pc = "parse"
    /\ CanRun(p)
    /\ \/ /\ ~req[p].body.json
          /\ req' = [req EXCEPT ![p] = Finish(@, ChatError)]
          /\ UNCHANGED <<db, messages>>
          /\ serial' = FALSE
       \/ /\ req[p].body.json
          /\ \E now \in Times, ok \in BOOLEAN :
               LET userMessage == Msg("user", req[p].body.message, now)
                   cache == PushMessage(messages, userMessage)
                   stored == ok /\ InsertAccepts(userMessage)
                   r == [req[p] EXCEPT !.userMessage = userMessage,
                                       !.sqlFailed = ~stored,
                                       !.inserted = IF stored THEN Append(@, userMessage) ELSE @]
               IN  /\ messages' = cache
                   /\ db' = IF stored THEN InsertRow(db, userMessage) ELSE db
                   /\ IF Propagates(stored)
                      THEN /\ req' = [req EXCEPT ![p] = Finish(r, ChatError)]
                           /\ serial' = FALSE
                      ELSE /\ req' = [req EXCEPT ![p] =
                                        [r EXCEPT !.pc = "infer",
                                                  !.context = BuildContext(cache, req[p].body.message)]]
                           /\ serial' = serial
    /\ last' = -1
    /\ shown' = NotShown
    /\ UNCHANGED <<cap, slots>>

\* handleChat from the return (or the throw) of AI.run to its response: the
\* reply text is resolved, the assistant message is built with Date.now()
\* and saved, and messageCount is this.messages.length.  AI.run gives one of
\* `results`.
AIReturnFrom(p, results) ==
    /\ req[p].pc = "infer"
    /\ CanRun(p)
    /\ \E result \in results, now \in Times, ok \in BOOLEAN :
         LET assistantMessage == Msg("assistant", AIResponse(result), now)
             cache == PushMessage(messages, assistantMessage)
             stored == ok /\ InsertAccepts(assistantMessage)
             r == [req[p] EXCEPT !.result = result.shape, !.raw = result.response,
                                 !.context = <<>>]
             saved == [r EXCEPT !.assistantMessage = assistantMessage,
                                !.sqlFailed = ~stored,
                                !.inserted = IF stored THEN Append(@, assistantMessage) ELSE @]
         IN  IF Escapes(result)
             THEN /\ req' = [req EXCEPT ![p] = Finish(r, ChatError)]
                  /\ UNCHANGED <<db, messages>>
                  /\ serial' = FALSE
             ELSE /\ messages' = cache
                  /\ db' = IF stored THEN InsertRow(db, assistantMessage) ELSE db
                  /\ IF Propagates(stored)
                     THEN /\ req' = [req EXCEPT ![p] = Finish(saved, ChatError)]
                          /\ serial' = FALSE
                     ELSE /\ req' = [req EXCEPT ![p] =
                                       Finish(saved, ChatOk(r.userMessage, assistantMessage,
                                                            Len(cache)))]
                          /\ serial' = serial
    /\ last' = -1
    /\ shown' = NotShown
    /\ UNCHANGED <<cap, slots>>

AIReturn(p) == AIReturnFrom(p, AIResults \cup {AIThrows})

\* The response (or the rejection) has reached the caller; the slot is free.
Reply(p) ==
    /\ req[p].pc = "done"
    /\ req' = [req EXCEPT ![p] = Idle]
    /\ UNCHANGED <<db, messages, cap, slots, serial, last, shown>>

\* The host evicts the idle instance; the next request constructs a new one
\* (private messages: Message[] = []).
Evict ==
    /\ \A p \in Procs : req[p].pc = "idle"
    /\ messages # <<>>
    /\ messages' = <<>>
    /\ last' = -1
    /\ UNCHANGED <<db, req, cap, slots, serial, shown>>

Next ==
    \/ \E p \in Procs, method \in Methods, path \in Paths, body \in Bodies \cup {NoBody} :
         InitFails(p, method, path, body)
    \/ \E p \in Procs, path \in Paths : Options(p, path)
    \/ \E p \in Procs, method \in Methods, path \in Paths : HandleGetHistory(p, method, path)
    \/ \E p \in Procs, method \in Methods, path \in Paths : HandleClear(p, method, path)
    \/ \E p \in Procs, method \in Methods, path \in Paths : RouteMiss(p, method, path)
    \/ \E p \in Procs, method \in Methods, path \in Paths, body \in Bodies :
         ChatStart(p, method, path, body)
    \/ \E p \in Procs : ChatParse(p)
    \/ \E p \in Procs : AIReturn(p)
    \/ \E p \in Procs : Reply(p)
    \/ Evict

Spec == Init /\ [][Next]_vars

SpecOverlap == InitOverlap /\ [][Next]_vars

\* Chats only, one at a time, AI.run giving every shape of result.
NextReply ==
    \/ \E p \in Procs, method \in Methods, path \in Paths, body \in Bodies :
         ChatStart(p, method, path, body)
    \/ \E p \in Procs : ChatParse(p)
    \/ \E p \in Procs : AIReturnFrom(p, AllAIResults \cup {AIThrows})
    \/ \E p \in Procs : Reply(p)

SpecReply == Init /\ [][NextReply]_vars

\* Overlapping chats, histories and clears; AI.run returns a string or
\* throws.
PairResults == {[shape |-> "string", response |-> "ok"], AIThrows}

NextPair ==
    \/ \E p \in Procs, method \in Methods, path \in Paths : HandleGetHistory(p, method, path)
    \/ \E p \in Procs, method \in Methods, path \in Paths : HandleClear(p, method, path)
    \/ \E p \in Procs, method \in Methods, path \in Paths, body \in Bodies :
         ChatStart(p, method, path, body)
    \/ \E p \in Procs : ChatParse(p)
    \/ \E p \in Procs :
         AIReturnFrom(p, PairResults)
    \/ \E p \in Procs : Reply(p)

SpecPair == InitOverlap /\ [][NextPair]_vars

\* Every storage statement and every call of AI.run returns or throws, and
\* request.json() resolves or rejects: a continuation that is ready runs
\* once the handler that holds the object has answered, however often other
\* requests take their turn before it; an answer reaches its caller.
Fairness ==
    \A p \in Procs :
        /\ SF_vars(ChatParse(p))
        /\ SF_vars(AIReturnFrom(p, PairResults))
        /\ WF_vars(Reply(p))

SpecLive == SpecPair /\ Fairness

\* ------------------------------------------------------------ properties

Done(p) == req[p].pc = "done"
Answered(p) == Done(p) /\ req[p].resp.outcome = "response"
ChatDone(p) == Done(p) /\ IsChat(req[p].method, req[p].path)
HistoryDone(p) == Answered(p) /\ IsHistory(req[p].method, req[p].path)
ClearDone(p) == Answered(p) /\ IsClear(req[p].method, req[p].path)

NonDecreasing(log) == \A i \in 1..(Len(log) - 1) : log[i].timestamp <= log[i + 1].timestamp

\* user, assistant, user, assistant, ...
Interleaved(log) ==
    \A i \in 1..Len(log) : log[i].role = IF i % 2 = 1 THEN "user" ELSE "assistant"

\* C1: after successful chats, one after the other, on a table that started
\* empty and was never cleared, GET /history returns the rows in the order
\* of the calls (the order of insertion): user, assistant, user, assistant,
\* ..., two per chat, with timestamps that never decrease.
C1_HistoryInCallOrder ==
    \A p \in Procs :
        (HistoryDone(p) /\ serial) =>
            /\ req[p].resp.messages = db
            /\ req[p].resp.count = Len(db)
            /\ Interleaved(req[p].resp.messages)
            /\ NonDecreasing(req[p].resp.messages)

\* C2: when an operation has answered, the cache equals the table, row for
\* row, also when the answer is the error of a chat whose INSERT failed.
C2_CacheEqualsLog ==
    \A p \in Procs : Answered(p) => messages = db

\* C3: a POST /clear that answers leaves the table and the cache empty, and a
\* GET /history that directly follows it answers with no messages and
\* count 0, whatever the table held before.
C3_ClearThenHistoryEmpty ==
    \A p \in Procs :
        /\ ClearDone(p) => (db = <<>> /\ messages = <<>>)
        /\ (HistoryDone(p) /\ req[p].cleared >= 0) =>
               (req[p].resp.messages = <<>> /\ req[p].resp.count = 0)

\* A history right after a clear that removed rows.
C3_Witness ==
    \E p \in Procs : HistoryDone(p) /\ req[p].cleared >= RowsPerChat

\* C4: the context given to AI.run is the system instruction, then the last
\* min(10, n) messages of the cache as it was before this chat's user
\* message was saved, then the new utterance, once.
C4_ContextIsPriorWindowThenUtterance ==
    [][\A p \in Procs :
         (req[p].pc = "parse" /\ req'[p].pc = "infer") =>
             req'[p].context =
                 <<[role |-> "system", content |-> SystemPrompt]>>
                 \o [i \in 1..Min(10, Len(messages)) |->
                       RoleContent(messages[Len(messages) - Min(10, Len(messages)) + i])]
                 \o <<[role |-> "user", content |-> req[p].body.message]>>]_vars

\* C5: the context in flight to AI.run has at most 12 entries: the system
\* instruction first and nowhere else, at most 10 user or assistant
\* messages, and the new user message last.
C5_ContextBounded ==
    \A p \in Procs :
        req[p].pc = "infer" =>
            LET c == req[p].context
            IN  /\ Len(c) >= 2
                /\ Len(c) <= 12
                /\ c[1] = [role |-> "system", content |-> SystemPrompt]
                /\ c[Len(c)] = [role |-> "user", content |-> req[p].body.message]
                /\ \A i \in 2..Len(c) : c[i].role \in {"user", "assistant"}

\* A chat on a cache longer than the window, whose context is full.
C5_Witness ==
    \E p \in Procs :
        req[p].pc = "infer" /\ Len(messages) > WINDOW /\ Len(req[p].context) = 12

\* C6: a chat during which AI.run throws, and no storage statement fails,
\* answers 200 with success:true, and the assistant message of the answer
\* has been stored after the user message: it is the last row of the table
\* and the last entry of the cache.
C6_InferenceFailureStillSucceeds ==
    \A p \in Procs :
        (ChatDone(p) /\ req[p].result = "throws" /\ ~req[p].sqlFailed) =>
            /\ req[p].resp.outcome = "response"
            /\ req[p].resp.status = 200
            /\ req[p].resp.success = "true"
            /\ req[p].resp.assistantMessage.role = "assistant"
            /\ db # <<>> /\ Last(db) = req[p].resp.assistantMessage
            /\ messages # <<>> /\ Last(messages) = req[p].resp.assistantMessage
            /\ req[p].inserted = <<req[p].resp.userMessage, req[p].resp.assistantMessage>>

C6_Witness ==
    \E p \in Procs :
        /\ ChatDone(p) /\ req[p].result = "throws" /\ ~req[p].sqlFailed
        /\ Len(db) >= RowsPerChat

\* C7 as claimed: when AI.run throws, the assistant message has the text
\* returned for a result with no response field.
C7_ThrowGivesNoResponseFallback ==
    \A p \in Procs :
        (ChatDone(p) /\ req[p].result = "throws" /\ req[p].resp.success = "true") =>
            req[p].resp.assistantMessage.content = NoResponseFallback

\* C7, amended: when AI.run throws, the assistant message returned and stored
\* has the text of generateAIResponse's catch, which is another string than
\* the one returned for a result with no response field.
C7_ThrowGivesErrorFallback ==
    \A p \in Procs :
        (ChatDone(p) /\ req[p].result = "throws" /\ req[p].resp.success = "true") =>
            /\ req[p].resp.assistantMessage.content = ErrorFallback
            /\ Last(db).content = ErrorFallback
            /\ ErrorFallback # NoResponseFallback

C7_Witness ==
    \E p \in Procs :
        /\ ChatDone(p) /\ req[p].result = "throws"
        /\ req[p].resp.assistantMessage.content = ErrorFallback

\* C8: a POST /chat whose body is not JSON, or is JSON without a message
\* field, never answers success:true; its answer is the 500 JSON envelope
\* with success:false.
C8_MalformedBodyIsError ==
    \A p \in Procs :
        (ChatDone(p) /\ req[p].body \in {BadJson, NoField}) =>
            /\ req[p].resp.success # "true"
            /\ Answered(p) =>
                   (req[p].resp.status = 500 /\ req[p].resp.success = "false"
                    /\ req[p].resp.body = "json")

\* The body without a message field, answered.
C8_Witness ==
    \E p \in Procs : ChatDone(p) /\ Answered(p) /\ req[p].body = NoField

\* C9: a chat answers success:true only when its INSERTs have stored its
\* user message and then its assistant message (the row added last); when
\* either INSERT fails the answer is the 500 envelope with success:false.
C9_SuccessOnlyAfterBothWrites ==
    \A p \in Procs :
        ChatDone(p) =>
            /\ req[p].resp.success = "true" =>
                   /\ req[p].inserted = <<req[p].resp.userMessage, req[p].resp.assistantMessage>>
                   /\ req[p].resp.userMessage.role = "user"
                   /\ db # <<>> /\ Last(db) = req[p].resp.assistantMessage
            /\ (req[p].userMessage # NoMsg /\ req[p].sqlFailed) =>
                   (Answered(p) /\ req[p].resp.status = 500 /\ req[p].resp.success = "false")

\* The assistant's INSERT fails after the user's row was stored.
C9_Witness ==
    \E p \in Procs :
        ChatDone(p) /\ req[p].sqlFailed /\ Len(req[p].inserted) = 1

\* C10: an OPTIONS request answers the empty 200 with the cross-origin
\* headers, runs no storage statement, cannot fail on storage, and leaves
\* the table and the cache as they were.
C10_PreflightHasNoEffect ==
    [][\A p \in Procs :
         (req[p].pc = "idle" /\ req'[p].pc = "done" /\ req'[p].method = "OPTIONS") =>
             /\ req'[p].resp = Preflight
             /\ ~req'[p].sql
             /\ ~req'[p].sqlFailed
             /\ db' = db
             /\ messages' = messages]_vars

\* A request that got past initializeDatabase: fetch went on to the dispatch.
Dispatched(r) == r.pc # "idle" /\ ~(r.handler = "none" /\ r.sqlFailed)

\* C11: of the requests that are not OPTIONS and get past initializeDatabase,
\* handleChat runs exactly for POST /chat, handleGetHistory exactly for GET
\* /history and handleClear exactly for POST /clear; every other method and
\* path is answered 404 "Not found" at once, by no handler, and the table is
\* left as it was.
C11_DispatchTotalExclusive ==
    [][\A p \in Procs :
         (req[p].pc = "idle" /\ Dispatched(req'[p]) /\ req'[p].method # "OPTIONS") =>
             /\ (req'[p].handler = "handleChat") <=>
                    (req'[p].method = "POST" /\ req'[p].path = "/chat")
             /\ (req'[p].handler = "handleGetHistory") <=>
                    (req'[p].method = "GET" /\ req'[p].path = "/history")
             /\ (req'[p].handler = "handleClear") <=>
                    (req'[p].method = "POST" /\ req'[p].path = "/clear")
             /\ (req'[p].handler = "none") <=> (req'[p].resp = NotFound)
             /\ (req'[p].handler = "none") =>
                    (req'[p].pc = "done" /\ req'[p].inserted = <<>> /\ db' = db)]_vars

\* GET /chat, answered 404 on a table that has rows.
C11_Witness ==
    \E p \in Procs :
        /\ Done(p) /\ req[p].method = "GET" /\ req[p].path = "/chat"
        /\ req[p].resp = NotFound /\ db # <<>>

Count(log, m) == Cardinality({i \in DOMAIN log : log[i] = m})
SameRows(a, b) == Len(a) = Len(b) /\ \A i \in DOMAIN a : Count(a, a[i]) = Count(b, a[i])

\* C13: a request dispatched while a chat waits for AI.run sees a whole
\* cache: the messages a GET /history answers with, and the cache a chat
\* builds its context from, are the rows of the table at that moment; and
\* when that request has answered and the other one has completed too, the
\* cache holds the rows of the table.
C13_OverlapSeesWholeLog ==
    [][\A q \in Procs :
         req'[q].overlap = "infer" =>
             /\ (req[q].pc = "idle" /\ req'[q].pc = "done"
                 /\ req'[q].handler = "handleGetHistory") =>
                    SameRows(req'[q].resp.messages, db')
             /\ (req[q].pc = "parse" /\ req'[q].pc = "infer") =>
                    SameRows(messages', db')
             /\ (req[q].pc # "done" /\ req'[q].pc = "done"
                 /\ req'[q].resp.outcome = "response"
                 /\ \A p \in Others(q) : req'[p].pc = "idle") =>
                    SameRows(messages', db')]_vars

\* A request whose initializeDatabase has thrown.
InitFailed(p) == Done(p) /\ req[p].handler = "none" /\ req[p].sqlFailed

\* C14: a request whose initializeDatabase throws, POST /chat included, ends
\* with fetch's promise rejected: there is no response, so no success:false
\* envelope from handleChat's catch; no route handler has run, no message
\* was built and no row was inserted.
C14_InitFailureIsUncaught ==
    \A p \in Procs :
        InitFailed(p) =>
            /\ req[p].resp = Rejected
            /\ req[p].resp.outcome # "response"
            /\ req[p].resp.success # "false"
            /\ req[p].userMessage = NoMsg
            /\ req[p].inserted = <<>>
            /\ req[p].result = "none"

\* POST /chat with a well-formed body, failing in initializeDatabase over a
\* table that has rows.
C14_Witness ==
    \E p \in Procs :
        /\ InitFailed(p) /\ IsChat(req[p].method, req[p].path)
        /\ req[p].body \notin {BadJson, NoField} /\ db # <<>>

\* A chat that answered success:true after AI.run returned a result.
Resolved(p) ==
    /\ ChatDone(p) /\ req[p].resp.success = "true"
    /\ req[p].result \in {"string", "object"}

\* C15 as claimed: the reply is the bare string as it is, the empty one
\* included; or the response field of an object that has one, whatever its
\* text; or the fixed string when the object has no response field.
C15_ReplyAsClaimed ==
    \A p \in Procs :
        Resolved(p) =>
            req[p].resp.assistantMessage.content =
                IF req[p].result = "string" THEN req[p].raw
                ELSE IF req[p].raw # Undefined THEN req[p].raw
                ELSE NoResponseFallback

\* C15, amended: the reply is the bare string as it is, the empty one
\* included; or the response field of an object when that field is not
\* empty; or the fixed string when the object has no response field or an
\* empty one.  It is the content of the message returned and of the row
\* stored.
C15_ReplyResolved ==
    \A p \in Procs :
        Resolved(p) =>
            /\ req[p].resp.assistantMessage.content =
                   IF req[p].result = "string" THEN req[p].raw
                   ELSE IF req[p].raw \notin {Undefined, ""} THEN req[p].raw
                   ELSE NoResponseFallback
            /\ Last(db).content = req[p].resp.assistantMessage.content

\* AI.run gave an object whose response field is the empty string.
C15_Witness ==
    \E p \in Procs :
        /\ Resolved(p) /\ req[p].result = "object" /\ req[p].raw = ""
        /\ req[p].resp.assistantMessage.content = NoResponseFallback

\* C16: a step leaves the table as it is, or adds one row at its end, or
\* empties it; no row is changed, moved or removed alone, and the table is
\* emptied by handleClear only.
C16_LogAppendedOrCleared ==
    [][\/ db' = db
       \/ Len(db') = Len(db) + 1 /\ SubSeq(db', 1, Len(db)) = db
       \/ /\ db' = <<>>
          /\ \E p \in Procs :
               /\ req[p].pc = "idle" /\ req'[p].pc = "done"
               /\ req'[p].handler = "handleClear" /\ req'[p].resp = ClearOk]_vars

\* A table that grew beyond the rows it was constructed with, then cleared.
C16_Witness ==
    \E p \in Procs :
        /\ Done(p) /\ req[p].handler = "handleClear" /\ req[p].resp = ClearOk
        /\ last > MaxPrior /\ db = <<>>

\* A chat that answered success:true.
ChatSucceeded(p) == ChatDone(p) /\ req[p].resp.success = "true"

\* What a GET /history dispatched now would count.
CountedNow(n) == \A cache \in Hydrated(db) : Len(cache) = n

\* C17 as claimed: the messageCount of a successful chat is the number of
\* rows in the table at the moment of the response, which is two more than
\* when the chat began, and is the count of a GET /history that follows at
\* once.
C17_CountIsLogLength ==
    \A p \in Procs :
        ChatSucceeded(p) =>
            /\ req[p].resp.count = Len(db)
            /\ req[p].resp.count = req[p].before + RowsPerChat
            /\ CountedNow(req[p].resp.count)

\* C17, amended: the messageCount of a successful chat is the length of the
\* cache at the moment of the response; when no other request was in flight
\* during the chat, it is the number of rows in the table, two more than when
\* the chat began, and the count of a GET /history that follows at once.
C17_CountIsCacheLength ==
    \A p \in Procs :
        ChatSucceeded(p) =>
            /\ req[p].resp.count = Len(messages)
            /\ req[p].overlap = "no" =>
                   /\ req[p].resp.count = Len(db)
                   /\ req[p].resp.count = req[p].before + RowsPerChat
                   /\ CountedNow(req[p].resp.count)

\* The second of two chats, alone in flight, on a table of two rows.
C17_Witness ==
    \E p \in Procs :
        /\ ChatSucceeded(p) /\ req[p].overlap = "no"
        /\ req[p].before = RowsPerChat /\ req[p].resp.count = 2 * RowsPerChat

InFlight(p) == req[p].pc \in {"parse", "infer"}

C19_NoOrphanAssistant ==
    (\A p \in Procs : ~InFlight(p)) =>
        \A i \in DOMAIN db :
            db[i].role = "assistant" => (i > 1 /\ db[i - 1].role = "user")

\* C20: a POST /chat whose body is not JSON, or is JSON without a message
\* field, is answered with the error and has changed nothing: the table and
\* the cache are as they were when the body arrived, and AI.run was not
\* called.
C20_MalformedChangesNothing ==
    [][\A p \in Procs :
         (/\ req[p].pc = "parse" /\ req[p].body \in {BadJson, NoField}
          /\ req'[p].pc # "parse") =>
             /\ req'[p].pc = "done"
             /\ req'[p].resp = ChatError
             /\ req'[p].result = "none"
             /\ db' = db
             /\ messages' = messages]_vars

====
